---- MODULE Spec2Model ----
(***************************************************************************)
(* A model of bank_statement_extractor_v1.py: the amount normaliser        *)
(* (clean_amount), the table cleaner (clean_table_data), the per-document  *)
(* pipeline (process_pdf_with_pdfplumber) and the batch driver (main).     *)
(*                                                                         *)
(* A text is a sequence of one-character strings; a character outside      *)
(* ASCII is written by its code point ("uFF0C" is the full-width comma,    *)
(* "u65E5" "u671F" are the two characters of the Chinese word for date).   *)
(* pandas is modelled with the semantics of pandas 1.x/2.x (object         *)
(* columns): astype(str) turns None into the text "None".                  *)
(***************************************************************************)
EXTENDS Integers, Sequences, FiniteSets, TLC

VARIABLES
    pc,               \* position of the program
    files,            \* main: the list of PDF files found (file ids)
    limits,           \* what the input collaborator may yield: [grids, kinds]
    fi,               \* main: number of files the for loop has taken
    processed_files,  \* main: the artifact references collected
    outcomes,         \* history: [file, result] of each file the loop has taken
    npages,           \* len(pdf.pages) of the open document
    page_num,         \* process_pdf: pages taken by the page loop
    tables,           \* process_pdf: page.extract_tables() of the current page
    idx,              \* process_pdf: tables of the page taken by the table loop
    seen,             \* history: [page, grid] of every grid taken, this document
    all_tables,       \* process_pdf: the cleaned tables collected
    sheets,           \* the ExcelWriter's workbook: sequence of [name, dfs]
    written,          \* process_pdf: tables taken by the sheet loop
    rejected,         \* history: tables whose proposed sheet name the sink rejected
    raised,           \* history: the sink raised in open, in a fallback write or in save
    result,           \* what process_pdf_with_pdfplumber returns
    disk,             \* output_files: file id -> NoFile or the saved workbook
    amount_in,        \* the argument of clean_amount
    amount_out,       \* the results of applying clean_amount once, twice
    table_in,         \* history: the table clean_table_data was called with
    table_df,         \* the caller's DataFrame, passed to clean_table_data
    table_out         \* the result of clean_table_data

vars == <<pc, files, limits, fi, processed_files, outcomes, npages, page_num,
          tables, idx, seen, all_tables, sheets, written, rejected, raised,
          result, disk, amount_in, amount_out, table_in, table_df, table_out>>

----------------------------------------------------------------------------
(* Bounds of the model. *)

MaxLen == 4          \* longest text given to clean_amount
MaxCols == 2         \* widest table given to clean_table_data
MaxRows == 2         \* most data rows of a table given to clean_table_data
MaxPages == 2        \* most pages of a document
MaxGrids == 3        \* most raw grids of a document
MaxFiles == 2        \* most files of a batch
BatchMaxGrids == 1   \* most raw grids of a document of a batch

----------------------------------------------------------------------------
(* Texts. *)

None == <<"<None>">>
NoneText == <<"N", "o", "n", "e">>

Digits == {"0", "1", "2", "3", "4", "5", "6", "7", "8", "9"}
Whitespace == {" ", "\t", "\n", "\r"}
UpperChars == <<"A", "B", "C", "D", "E", "F", "G", "H", "I", "J", "K", "L", "M",
                "N", "O", "P", "Q", "R", "S", "T", "U", "V", "W", "X", "Y", "Z">>
LowerChars == <<"a", "b", "c", "d", "e", "f", "g", "h", "i", "j", "k", "l", "m",
                "n", "o", "p", "q", "r", "s", "t", "u", "v", "w", "x", "y", "z">>

\* str(x)
str(x) == IF x = None THEN NoneText ELSE x

\* pd.isna(x) of a cell: a cell is a text or None
pd_isna(x) == x = None

\* s.lower()
lower(s) ==
    [i \in 1..Len(s) |->
        IF \E k \in 1..26 : UpperChars[k] = s[i]
        THEN LowerChars[CHOOSE k \in 1..26 : UpperChars[k] = s[i]]
        ELSE s[i]]

\* kw in s
contains(s, kw) ==
    \E i \in 0..(Len(s) - Len(kw)) : SubSeq(s, i + 1, i + Len(kw)) = kw

\* s.strip()
strip(s) ==
    LET keep == {i \in 1..Len(s) : s[i] \notin Whitespace}
    IN  IF keep = {} THEN <<>>
        ELSE LET a == CHOOSE i \in keep : \A j \in keep : i <= j
                 b == CHOOSE i \in keep : \A j \in keep : j <= i
             IN  SubSeq(s, a, b)

\* s.count(c)
count(s, c) == Cardinality({i \in 1..Len(s) : s[i] = c})

\* s.split(c)
RECURSIVE split(_, _)
split(s, c) ==
    IF count(s, c) = 0 THEN <<s>>
    ELSE LET i == CHOOSE i \in 1..Len(s) :
                      s[i] = c /\ \A j \in 1..(i - 1) : s[j] # c
         IN  <<SubSeq(s, 1, i - 1)>> \o split(SubSeq(s, i + 1, Len(s)), c)

\* ''.join(parts)
RECURSIVE join(_)
join(parts) == IF parts = <<>> THEN <<>> ELSE Head(parts) \o join(Tail(parts))

----------------------------------------------------------------------------
(* clean_amount *)

AmountChar(c) == c \in Digits \cup {".", ",", "-"}

\* re.sub(r"[^0-9.,\-]", "", amount_str)
re_sub_amount(s) == SelectSeq(s, AmountChar)

\* cleaned.replace(full-width comma, ",")
replace_comma(s) == [i \in 1..Len(s) |-> IF s[i] = "uFF0C" THEN "," ELSE s[i]]

\* a slip in the join: the last period is dropped and the others kept
collapse_periods_dropping_last(cleaned) ==
    IF count(cleaned, ".") > 1
    THEN LET parts == split(cleaned, ".")
             n == Len(parts)
         IN  SubSeq(cleaned, 1, Len(cleaned) - Len(parts[n]) - 1) \o parts[n]
    ELSE cleaned

\* a slip in the join: the first period is kept instead of the last
collapse_periods_keeping_first(cleaned) ==
    IF count(cleaned, ".") > 1
    THEN LET parts == split(cleaned, ".")
         IN  parts[1] \o <<".">> \o join(Tail(parts))
    ELSE cleaned

\* if cleaned.count('.') > 1: ''.join(parts[:-1]) + '.' + parts[-1]
collapse_periods(cleaned) ==
    IF count(cleaned, ".") > 1
    THEN LET parts == split(cleaned, ".")
             n == Len(parts)
         IN  join(SubSeq(parts, 1, n - 1)) \o <<".">> \o parts[n]
    ELSE cleaned

clean_amount(amount_str) ==
    IF pd_isna(amount_str) THEN amount_str
    ELSE strip(collapse_periods(replace_comma(re_sub_amount(str(amount_str)))))

----------------------------------------------------------------------------
(* clean_table_data.  A DataFrame is [columns, rows]; Raised stands for an  *)
(* exception leaving the call.                                              *)

Raised == [columns |-> <<>>, rows |-> <<>>, raised |-> TRUE]

date_col_keywords == << <<"d", "a", "t", "e">>, <<"u65E5", "u671F">> >>

amount_col_keywords ==
    << <<"w", "i", "t", "h", "d", "r", "a", "w", "a", "l", "s">>,
       <<"d", "e", "p", "o", "s", "i", "t", "s">>,
       <<"b", "a", "l", "a", "n", "c", "e">>,
       <<"a", "m", "o", "u", "n", "t">>,
       <<"u652F", "u51FA">>,
       <<"u5B58", "u5165">>,
       <<"u7D50", "u9918">>,
       <<"u91D1", "u984D">> >>

\* any(kw.lower() in str(col).lower() for kw in keywords)
matches(col, keywords) ==
    \E k \in 1..Len(keywords) : contains(lower(str(col)), lower(keywords[k]))

\* the header labels of the model's tables
LDate == <<"D", "a", "t", "e">>
LAmount == <<"A", "m", "o", "u", "n", "t">>
LBoth == <<"D", "a", "t", "e", " ", "B", "a", "l", "a", "n", "c", "e">>
LDetails == <<"D", "e", "t", "a", "i", "l", "s">>
Labels == {LDate, LAmount, LBoth, LDetails}

\* the two tests of every label of the model, computed once
date_matches == [col \in Labels |-> matches(col, date_col_keywords)]
amount_matches == [col \in Labels |-> matches(col, amount_col_keywords)]

is_date_col(col) == date_matches[col]
is_amount_col(col) == amount_matches[col]

\* date_cols = [col for col in df_cleaned.columns if any(...)], as the columns'
\* positions
date_cols(df) == {j \in 1..Len(df.columns) : is_date_col(df.columns[j])}

\* amount_cols = [col for col in df_cleaned.columns if any(...)], as the
\* columns' positions
amount_cols(df) == {j \in 1..Len(df.columns) : is_amount_col(df.columns[j])}

\* df[col] is a DataFrame, not a Series, when the label col occurs twice
duplicated(columns, col) == Cardinality({j \in 1..Len(columns) : columns[j] = col}) > 1

\* .astype(str).str.strip() of one cell
date_clean(cell) == strip(str(cell))

\* for col in date_cols: df_cleaned[col] = df_cleaned[col].astype(str).str.strip()
date_pass(df, cols) ==
    [columns |-> df.columns,
     rows |-> [r \in 1..Len(df.rows) |->
                 [j \in 1..Len(df.columns) |->
                    IF j \in cols THEN date_clean(df.rows[r][j]) ELSE df.rows[r][j]]]]

\* for col in amount_cols: df_cleaned[col] = df_cleaned[col].apply(clean_amount)
amount_pass(df, cols) ==
    [columns |-> df.columns,
     rows |-> [r \in 1..Len(df.rows) |->
                 [j \in 1..Len(df.columns) |->
                    IF j \in cols THEN clean_amount(df.rows[r][j]) ELSE df.rows[r][j]]]]

\* .str of a DataFrame (AttributeError) and the truth value of pd.isna(Series)
\* (ValueError): a Date or Amount label that occurs twice makes its pass raise
pass_raises(df) ==
    \E j \in date_cols(df) \cup amount_cols(df) : duplicated(df.columns, df.columns[j])

\* a slip: the Amount pass before the Date pass
clean_table_data_amount_first(df) ==
    IF pass_raises(df) THEN Raised
    ELSE date_pass(amount_pass(df, amount_cols(df)), date_cols(df))

clean_table_data(df) ==
    IF pass_raises(df) THEN Raised
    ELSE amount_pass(date_pass(df, date_cols(df)), amount_cols(df))

\* the call: what the caller's DataFrame holds afterwards, and what is returned
call_clean_table_data(df) == [df |-> df, ret |-> clean_table_data(df)]

\* pd.DataFrame(rows, columns=header): short rows are padded with None up to
\* the longest row; the longest row must have as many cells as the header
DataFrame(rows, header) ==
    IF rows = <<>> THEN [columns |-> header, rows |-> <<>>]
    ELSE LET width == CHOOSE w \in {Len(rows[r]) : r \in 1..Len(rows)} :
                          \A r \in 1..Len(rows) : Len(rows[r]) <= w
         IN  IF width # Len(header) THEN Raised
             ELSE [columns |-> header,
                   rows |-> [r \in 1..Len(rows) |->
                               [j \in 1..width |->
                                  IF j <= Len(rows[r]) THEN rows[r][j] ELSE None]]]

----------------------------------------------------------------------------
(* The inputs of the model. *)

\* the texts of length n over the alphabet
RECURSIVE TextsOfLen(_, _)
TextsOfLen(alphabet, n) ==
    IF n = 0 THEN {<<>>}
    ELSE {Append(t, c) : t \in TextsOfLen(alphabet, n - 1), c \in alphabet}

TextsUpTo(alphabet, n) == UNION {TextsOfLen(alphabet, k) : k \in 0..n}

AmountAlphabet == {"1", "7", ".", ",", "-", "$", " ", "uFF0C"}
ExampleAmount == <<"1", ".", "2", "3", "4", ".", "5", "6">>
AmountInputs == TextsUpTo(AmountAlphabet, MaxLen) \cup {ExampleAmount, None}

CellValues == {None, <<" ", "$", "1", ".", "2", ".", "3", " ">>}
TableInputs ==
    UNION {{[columns |-> h, rows |-> rs] :
              h \in TextsOfLen(Labels, c),
              rs \in UNION {TextsOfLen(TextsOfLen(CellValues, c), r) : r \in 1..MaxRows}} :
           c \in 1..MaxCols}

\* raw grids: no row; a header only; the 3-row grid with header Date, Amount;
\* a data row longer than the header; a data row shorter than the header;
\* a header with the label Date twice
GEmpty == <<>>
GHeaderOnly == <<<<LDate, LAmount>>>>
GGood == <<<<LDate, LAmount>>,
           <<<<" ", "1", "/", "2">>, <<"$", "1", ".", "2", ".", "3">>>>,
           <<<<"3", "/", "4">>, None>>>>
GLongRow == <<<<LDate, LAmount>>, <<<<"1", "/", "2">>, <<"5">>, <<"6">>>>>>
GShortRow == <<<<LDetails, LAmount>>, <<<<"x">>, <<"7">>>>, <<<<"y">>>>>>
GDupDate == <<<<LDate, LDate>>, <<<<"1", "/", "2">>, <<"3", "/", "4">>>>>>
GridKinds == {GEmpty, GHeaderOnly, GGood, GLongRow, GShortRow, GDupDate}
BatchGridKinds == {GHeaderOnly, GGood}

----------------------------------------------------------------------------
(* process_pdf_with_pdfplumber: the table loop. *)

\* a slip: > 0 for > 1, a header-only grid becomes a table without rows
table_result_header_only(table_data) ==
    IF table_data = <<>> THEN <<>>
    ELSE LET df == DataFrame(Tail(table_data), table_data[1])
         IN  IF df = Raised THEN <<>>
             ELSE LET df_cleaned == call_clean_table_data(df).ret
                  IN  IF df_cleaned = Raised THEN <<>> ELSE <<df_cleaned>>

\* lines 105-136 for one table_data of the page: what is appended to
\* all_tables, one cleaned DataFrame or nothing
table_result(table_data) ==
    IF table_data = <<>> THEN <<>>
    ELSE IF Len(table_data) > 1
         THEN LET header == table_data[1]
                  rows == Tail(table_data)
                  df == DataFrame(rows, header)
              IN  IF df = Raised THEN <<>>
                  ELSE LET df_cleaned == call_clean_table_data(df).ret
                       IN  IF df_cleaned = Raised THEN <<>>
                           ELSE <<df_cleaned>>
         ELSE <<>>

\* table_result of every grid the documents of the model hold
table_results == [g \in GridKinds |-> table_result(g)]

\* a slip: the except clause around the whole loop, a failed DataFrame
\* construction loses the tables collected so far
table_step_losing_tables(tabs, table_data) ==
    IF Len(table_data) > 1 /\ DataFrame(Tail(table_data), table_data[1]) = Raised
    THEN <<>>
    ELSE tabs \o table_results[table_data]

\* lines 104-136 for one table_data of the page: all_tables afterwards
table_step(tabs, table_data) == tabs \o table_results[table_data]

----------------------------------------------------------------------------
(* process_pdf_with_pdfplumber: the workbook. *)

DigitChars == <<"0", "1", "2", "3", "4", "5", "6", "7", "8", "9">>

\* the decimal text of a natural number, as an f-string formats it
RECURSIVE decimal(_)
decimal(n) ==
    IF n < 10 THEN <<DigitChars[n + 1]>>
    ELSE decimal(n \div 10) \o <<DigitChars[(n % 10) + 1]>>

SheetNameLimit == 31

\* f"Sheet_{idx+1}" of the 0-based idx
sheet_name(i) == <<"S", "h", "e", "e", "t", "_">> \o decimal(i + 1)

\* sheet_name[:31]
truncated(name) == SubSeq(name, 1, IF Len(name) < SheetNameLimit THEN Len(name) ELSE SheetNameLimit)

\* the sheet_name to_excel uses when none is given
DefaultSheetName == <<"S", "h", "e", "e", "t", "1">>

\* df.to_excel(writer, sheet_name=name) that the sink accepts: a new sheet, or,
\* when the workbook has a sheet of that name, the cells go onto that sheet
to_excel(book, df, name) ==
    IF \E k \in 1..Len(book) : book[k].name = name
    THEN [k \in 1..Len(book) |->
            IF book[k].name = name
            THEN [name |-> name, dfs |-> Append(book[k].dfs, df)]
            ELSE book[k]]
    ELSE Append(book, [name |-> name, dfs |-> <<df>>])

SinkAnswers == {"accepted", "rejected", "rejected_raised"}

\* a slip: no fallback, a rejected name leaves the with block
write_sheet_no_fallback(book, i, answer) ==
    IF answer = "accepted"
    THEN [book |-> to_excel(book, i + 1, truncated(sheet_name(i))), exc |-> FALSE]
    ELSE [book |-> book, exc |-> TRUE]

\* lines 154-159 for all_tables[idx]: the sink accepts the proposed name, or
\* rejects it and accepts the default name, or rejects it and raises again.  A
\* to_excel that raises is taken to leave the workbook as it was.
write_sheet(book, i, answer) ==
    IF answer = "accepted"
    THEN [book |-> to_excel(book, i + 1, truncated(sheet_name(i))), exc |-> FALSE]
    ELSE IF answer = "rejected"
         THEN [book |-> to_excel(book, i + 1, DefaultSheetName), exc |-> FALSE]
         ELSE [book |-> book, exc |-> TRUE]

NoFile == [sheets |-> <<>>, exists |-> FALSE]
SavedFile(book) == [sheets |-> book, exists |-> TRUE]

\* os.path.join(output_excel_folder, f"{basename}_extracted.xlsx")
excel_path(f) == <<"output_files", f, "_extracted.xlsx">>

----------------------------------------------------------------------------
(* The state machine. *)

IdleAmount == amount_in = None /\ amount_out = <<>>
IdleTable == table_in = Raised /\ table_df = Raised /\ table_out = Raised
IdleMain ==
    /\ files = <<>> /\ limits = [grids |-> 0, kinds |-> {}]
    /\ fi = 0 /\ processed_files = <<>> /\ outcomes = <<>>
    /\ npages = 0 /\ page_num = 0 /\ tables = <<>> /\ idx = 0
    /\ seen = <<>> /\ all_tables = <<>> /\ sheets = <<>> /\ written = 0
    /\ rejected = {} /\ raised = FALSE /\ result = <<>>
    /\ disk = <<>>

\* main, after os.listdir found n files, before the for loop
InitMain(n, lim) ==
    /\ pc = "main"
    /\ files = [k \in 1..n |-> k]
    /\ limits = lim
    /\ fi = 0 /\ processed_files = <<>> /\ outcomes = <<>>
    /\ npages = 0 /\ page_num = 0 /\ tables = <<>> /\ idx = 0
    /\ seen = <<>> /\ all_tables = <<>> /\ sheets = <<>> /\ written = 0
    /\ rejected = {} /\ raised = FALSE /\ result = <<>>
    /\ disk = [k \in 1..n |-> NoFile]
    /\ IdleAmount /\ IdleTable

\* one document
Init == InitMain(1, [grids |-> MaxGrids, kinds |-> GridKinds])

\* a batch of documents
InitBatch ==
    \E n \in 1..MaxFiles : InitMain(n, [grids |-> BatchMaxGrids, kinds |-> BatchGridKinds])

main_vars == <<files, limits, fi, processed_files, outcomes>>
page_vars == <<npages, page_num, tables, idx, seen, all_tables>>
sink_vars == <<sheets, written, rejected, disk>>
pure_vars == <<amount_in, amount_out, table_in, table_df, table_out>>

\* the file the for loop of main is at
fname == files[fi + 1]

\* process_pdf_with_pdfplumber returns r
Return(r) == pc' = "return" /\ result' = r

\* line 193, 198, 93: the loop takes the next file and pdfplumber opens it
OpenPdf ==
    /\ pc = "main" /\ fi < Len(files)
    /\ \E n \in 0..MaxPages : npages' = n
    /\ pc' = "pages"
    /\ UNCHANGED <<main_vars, page_num, tables, idx, seen, all_tables,
                   sink_vars, raised, result, pure_vars>>

\* line 93, 138-141: pdfplumber.open raises
OpenPdfRaises ==
    /\ pc = "main" /\ fi < Len(files)
    /\ Return(<<>>)
    /\ UNCHANGED <<main_vars, page_vars, sink_vars, raised, pure_vars>>

\* line 94, 100: the page loop takes the next page, extract_tables answers
ExtractTables ==
    /\ pc = "pages" /\ page_num < npages
    /\ \E n \in 0..(limits.grids - Len(seen)) :
           \E t \in TextsOfLen(limits.kinds, n) :
               /\ tables' = t
               /\ pc' = IF n = 0 THEN "pages" ELSE "tables"
    /\ page_num' = page_num + 1
    /\ idx' = 0
    /\ UNCHANGED <<main_vars, npages, seen, all_tables, sink_vars, raised,
                   result, pure_vars>>

\* line 100, 138-141: extract_tables raises
ExtractTablesRaises ==
    /\ pc = "pages" /\ page_num < npages
    /\ Return(<<>>)
    /\ UNCHANGED <<main_vars, page_vars, sink_vars, raised, pure_vars>>

\* lines 104-136: the table loop takes the next table of the page
ProcessTable ==
    /\ pc = "tables" /\ idx < Len(tables)
    /\ all_tables' = table_step(all_tables, tables[idx + 1])
    /\ seen' = Append(seen, [page |-> page_num, grid |-> tables[idx + 1]])
    /\ idx' = idx + 1
    /\ pc' = IF idx + 1 = Len(tables) THEN "pages" ELSE "tables"
    /\ UNCHANGED <<main_vars, npages, page_num, tables, sink_vars, raised,
                   result, pure_vars>>

\* lines 143-146: the pages are exhausted and there is no table
NoTables ==
    /\ pc = "pages" /\ page_num = npages /\ all_tables = <<>>
    /\ Return(<<>>)
    /\ UNCHANGED <<main_vars, page_vars, sink_vars, raised, pure_vars>>

\* lines 149-151: the pages are exhausted, ExcelWriter opens the artifact
OpenWriter ==
    /\ pc = "pages" /\ page_num = npages /\ all_tables # <<>>
    /\ pc' = "sheets"
    /\ sheets' = <<>>
    /\ written' = 0
    /\ UNCHANGED <<main_vars, page_vars, rejected, disk, raised, result, pure_vars>>

\* line 151, 163-166: ExcelWriter raises, the destination cannot be opened
OpenWriterRaises ==
    /\ pc = "pages" /\ page_num = npages /\ all_tables # <<>>
    /\ raised' = TRUE
    /\ Return(<<>>)
    /\ UNCHANGED <<main_vars, page_vars, sink_vars, pure_vars>>

\* lines 152-159: the sheet loop takes the next table.  When the fallback
\* raises too, the with block is left: ExcelWriter.__exit__ closes the writer,
\* which saves the workbook as it stands, unless the save fails as well or
\* the workbook has no sheet yet (openpyxl saves no workbook without a sheet)
WriteSheet ==
    /\ pc = "sheets" /\ written < Len(all_tables)
    /\ \E answer \in SinkAnswers :
       \E saved \in IF answer = "rejected_raised" THEN BOOLEAN ELSE {TRUE} :
        LET w == write_sheet(sheets, written, answer)
        IN  /\ rejected' = IF answer = "accepted" THEN rejected
                           ELSE rejected \cup {written + 1}
            /\ raised' = (raised \/ answer = "rejected_raised")
            /\ IF w.exc
               THEN /\ disk' = IF saved /\ w.book # <<>>
                               THEN [disk EXCEPT ![fname] = SavedFile(w.book)]
                               ELSE disk
                    /\ Return(<<>>)
                    /\ UNCHANGED <<sheets, written>>
               ELSE /\ sheets' = w.book
                    /\ written' = written + 1
                    /\ UNCHANGED <<pc, disk, result>>
    /\ UNCHANGED <<main_vars, page_vars, pure_vars>>

\* lines 151, 160-162: the loop is over, the with block closes the writer,
\* which saves the workbook
CloseWriter ==
    /\ pc = "sheets" /\ written = Len(all_tables)
    /\ disk' = [disk EXCEPT ![fname] = SavedFile(sheets)]
    /\ Return(<<excel_path(fname)>>)
    /\ UNCHANGED <<main_vars, page_vars, sheets, written, rejected, raised, pure_vars>>

\* lines 151, 163-166: the save raises
CloseWriterRaises ==
    /\ pc = "sheets" /\ written = Len(all_tables)
    /\ raised' = TRUE
    /\ Return(<<>>)
    /\ UNCHANGED <<main_vars, page_vars, sink_vars, pure_vars>>

\* a slip: the loop stops at the first document without a result
collect_stop_on_failure(done, r) == IF r # <<>> THEN done \o r ELSE <<>>

\* lines 199-200: if result: processed_files.extend(result)
collect(done, r) == IF r # <<>> THEN done \o r ELSE done

\* lines 198-200: process_pdf_with_pdfplumber has returned to main
Collect ==
    /\ pc = "return"
    /\ processed_files' = collect(processed_files, result)
    /\ outcomes' = Append(outcomes, [file |-> fname, result |-> result])
    /\ fi' = fi + 1
    /\ pc' = "main"
    /\ npages' = 0 /\ page_num' = 0 /\ tables' = <<>> /\ idx' = 0
    /\ seen' = <<>> /\ all_tables' = <<>> /\ sheets' = <<>> /\ written' = 0
    /\ rejected' = {} /\ raised' = FALSE /\ result' = <<>>
    /\ UNCHANGED <<files, limits, disk, pure_vars>>

\* lines 202-207: the for loop is over
Finish ==
    /\ pc = "main" /\ fi = Len(files)
    /\ pc' = "done"
    /\ UNCHANGED <<main_vars, page_vars, sink_vars, raised, result, pure_vars>>

Next ==
    \/ OpenPdf \/ OpenPdfRaises
    \/ ExtractTables \/ ExtractTablesRaises \/ ProcessTable
    \/ NoTables \/ OpenWriter \/ OpenWriterRaises
    \/ WriteSheet \/ CloseWriter \/ CloseWriterRaises
    \/ Collect \/ Finish

Spec == Init /\ [][Next]_vars

\* The program is sequential and every call returns or raises: a step that
\* can be taken is taken.
SpecBatch == InitBatch /\ [][Next]_vars /\ WF_vars(Next)

----------------------------------------------------------------------------
(* clean_amount and clean_table_data on their own. *)

InitAmount ==
    /\ pc = "amount"
    /\ amount_in \in AmountInputs
    /\ amount_out = <<>>
    /\ IdleMain /\ IdleTable

\* clean_amount applied to the input, then to its own result
ApplyCleanAmount ==
    /\ pc = "amount" /\ Len(amount_out) < 2
    /\ amount_out' = Append(amount_out,
                            clean_amount(IF amount_out = <<>> THEN amount_in
                                         ELSE amount_out[Len(amount_out)]))
    /\ UNCHANGED <<pc, main_vars, page_vars, sink_vars, raised, result,
                   amount_in, table_in, table_df, table_out>>

SpecAmount == InitAmount /\ [][ApplyCleanAmount]_vars

InitTable ==
    /\ pc = "table"
    /\ table_in \in TableInputs
    /\ table_df = table_in
    /\ table_out = Raised
    /\ IdleMain /\ IdleAmount

\* df_cleaned = clean_table_data(df)
ApplyCleanTable ==
    /\ pc = "table"
    /\ pc' = "table_done"
    /\ table_df' = call_clean_table_data(table_df).df
    /\ table_out' = call_clean_table_data(table_df).ret
    /\ UNCHANGED <<main_vars, page_vars, sink_vars, raised, result,
                   amount_in, amount_out, table_in>>

SpecTable == InitTable /\ [][ApplyCleanTable]_vars

----------------------------------------------------------------------------
(* The claims. *)

Grids(h) == [k \in 1..Len(h) |-> h[k].grid]
RemoveAt(s, k) == SubSeq(s, 1, k - 1) \o SubSeq(s, k + 1, Len(s))
IsPrefix(s, t) == Len(s) <= Len(t) /\ SubSeq(t, 1, Len(s)) = s

\* the table loop run over a sequence of grids, from no table
RECURSIVE Aggregate(_)
Aggregate(gs) ==
    IF gs = <<>> THEN <<>>
    ELSE table_step(Aggregate(SubSeq(gs, 1, Len(gs) - 1)), gs[Len(gs)])

\* the grid has data rows and pd.DataFrame raises on it
BuildFails(g) == Len(g) > 1 /\ DataFrame(Tail(g), g[1]) = Raised

\* the grid has data rows and pd.DataFrame accepts it
Structured(g) == Len(g) > 1 /\ DataFrame(Tail(g), g[1]) # Raised

\* C1: a grid whose DataFrame construction fails is excluded alone: the tables
\* collected are those the same grids without it give, and the tables collected
\* before it are kept.
C1_FailedGridExcludedAlone ==
    \A k \in 1..Len(seen) :
        BuildFails(seen[k].grid) =>
            /\ all_tables = Aggregate(RemoveAt(Grids(seen), k))
            /\ IsPrefix(Aggregate(SubSeq(Grids(seen), 1, k - 1)), all_tables)

C1_Witness ==
    /\ pc = "sheets" /\ Len(seen) = 3
    /\ BuildFails(seen[2].grid)
    /\ Len(all_tables) = 2

\* C2: every grid that pd.DataFrame accepts (a header and rows of matching
\* cardinality, labels not necessarily unique) has its cleaned table in
\* all_tables, in encounter order.
C2_EveryStructuredGridRetained ==
    LET ok == SelectSeq(Grids(seen), Structured)
    IN  /\ Len(all_tables) = Len(ok)
        /\ \A j \in 1..Len(ok) :
               /\ all_tables[j].columns = ok[j][1]
               /\ Len(all_tables[j].rows) = Len(ok[j]) - 1

\* the workbook saved for the document being processed
Book == disk[fname].sheets

\* C3: when assembly returns the artifact, it holds one sheet per table in
\* collection order, with pairwise distinct names of at most 31 characters,
\* also when proposed names were rejected.
C3_OneSheetPerTable ==
    (pc = "return" /\ result # <<>>) =>
        /\ Len(Book) = Len(all_tables)
        /\ \A k \in 1..Len(Book) :
               /\ Book[k].dfs = <<k>>
               /\ Len(Book[k].name) <= 31
               /\ \A m \in 1..Len(Book) : m # k => Book[m].name # Book[k].name

\* C4: when the sink rejects the proposed name of one table and nothing else
\* fails, the artifact reference is returned, that table is the one sheet
\* under the default name and every other table is a sheet under its own name.
C4_RejectedNameNotFatal ==
    (pc = "return" /\ Cardinality(rejected) = 1 /\ ~raised) =>
        /\ result = <<excel_path(fname)>>
        /\ disk[fname].exists
        /\ Len(Book) = Len(all_tables)
        /\ \A i \in 1..Len(all_tables) :
               /\ Book[i].dfs = <<i>>
               /\ Book[i].name = IF i \in rejected THEN DefaultSheetName
                                 ELSE truncated(sheet_name(i - 1))

C4_Witness ==
    /\ pc = "return" /\ rejected = {2} /\ ~raised
    /\ Len(all_tables) = 3 /\ result # <<>>

\* C5: assembly is all-or-nothing: without a reference no artifact is left
\* behind, and with a reference every table is in the artifact.
C5_AllOrNothing ==
    pc = "return" =>
        /\ result = <<>> => ~disk[fname].exists
        /\ result # <<>> =>
               \A i \in 1..Len(all_tables) :
                   \E k \in 1..Len(Book) :
                       \E m \in 1..Len(Book[k].dfs) : Book[k].dfs[m] = i

\* the references of the files taken so far, in order
RECURSIVE Refs(_)
Refs(out) ==
    IF out = <<>> THEN <<>>
    ELSE Refs(SubSeq(out, 1, Len(out) - 1)) \o out[Len(out)].result

\* the loop has taken the files once each in list order, each returned nothing
\* or its own reference, and the references collected are those returned, in
\* order
TakenInOrder ==
    /\ Len(outcomes) = fi /\ fi <= Len(files)
    /\ \A k \in 1..fi :
           /\ outcomes[k].file = files[k]
           /\ outcomes[k].result \in {<<>>, <<excel_path(files[k])>>}
    /\ processed_files = Refs(outcomes)
    /\ pc = "done" => fi = Len(files)

\* C6: the batch is never halted by a document: at every moment the loop has
\* taken the files once each in list order and collected the references of
\* exactly the documents that returned one, the earlier ones unchanged, and
\* the loop eventually is over with every file taken.
C6_BatchContinues == []TakenInOrder /\ <>(pc = "done" /\ fi = Len(files))

C6_Witness ==
    /\ pc = "done" /\ Len(files) = 2
    /\ outcomes[1].result = <<>>
    /\ processed_files = <<excel_path(2)>>

AtLeastTwoRows(g) == Len(g) >= 2

ExampleDocument ==
    <<[page |-> 1, grid |-> GGood], [page |-> 2, grid |-> GHeaderOnly]>>

\* C7: grids of 0 rows or 1 row contribute nothing: the tables collected are
\* those the grids of at least 2 rows give, at most one each and each with a
\* data row; and the document of a 3-row grid on page 1 and a header-only grid
\* on page 2 gives one table of 2 data rows and an artifact of one sheet.
C7_ShortGridsContributeNothing ==
    /\ all_tables = Aggregate(SelectSeq(Grids(seen), AtLeastTwoRows))
    /\ Len(all_tables) <= Len(SelectSeq(Grids(seen), AtLeastTwoRows))
    /\ \A j \in 1..Len(all_tables) : Len(all_tables[j].rows) >= 1
    /\ (seen = ExampleDocument /\ npages = 2 /\ pc \in {"pages", "sheets", "return"}) =>
           /\ Len(all_tables) = 1
           /\ all_tables[1].columns = <<LDate, LAmount>>
           /\ Len(all_tables[1].rows) = 2
           /\ (pc = "return" /\ result # <<>>) => Len(Book) = 1

C7_Witness ==
    /\ pc = "return" /\ seen = ExampleDocument /\ npages = 2
    /\ result # <<>> /\ disk[fname].exists

\* C8: clean_amount applied to its own result changes nothing.
C8_Idempotent ==
    Len(amount_out) = 2 => amount_out[2] = amount_out[1]

C8_Witness ==
    /\ Len(amount_out) = 2
    /\ count(amount_in, ".") > 2
    /\ amount_out[1] # amount_in

ClaimChars == {"0", "1", "2", "3", "4", "5", "6", "7", "8", "9", ".", ",", "-"}

\* the characters of s at the positions of the set, in order
RECURSIVE Pick(_, _)
Pick(s, positions) ==
    IF positions = {} THEN <<>>
    ELSE LET m == CHOOSE i \in positions : \A j \in positions : j <= i
         IN  Append(Pick(s, positions \ {m}), s[m])

C10_DateBeforeAmount ==
    (pc = "table_done" /\ table_out # Raised) =>
        LET dates == {j \in 1..Len(table_in.columns) : is_date_col(table_in.columns[j])}
            amounts == {j \in 1..Len(table_in.columns) : is_amount_col(table_in.columns[j])}
        IN  /\ table_df = table_in
            /\ table_out.columns = table_in.columns
            /\ Len(table_out.rows) = Len(table_in.rows)
            /\ \A r \in 1..Len(table_in.rows) :
                   /\ Len(table_out.rows[r]) = Len(table_in.columns)
                   /\ \A j \in dates \cap amounts :
                          table_out.rows[r][j] = clean_amount(strip(str(table_in.rows[r][j])))
                   /\ \A j \in (1..Len(table_in.columns)) \ (dates \cup amounts) :
                          table_out.rows[r][j] = table_in.rows[r][j]

C10_Witness ==
    /\ pc = "table_done" /\ table_out # Raised
    /\ table_in.columns = <<LBoth, LDetails>>
    /\ Len(table_in.rows) = 2
    /\ table_in.rows[1][1] = None
    /\ table_in.rows[2][2] # None

====
